---- MODULE Spec2Model ----
(***************************************************************************)
(* Windows x64 UNWIND_INFO encoder                                         *)
(* (cranelift/codegen/src/isa/unwind/winx64.rs).                           *)
(*                                                                         *)
(* The state is one UnwindInfo value, the caller's byte buffer and the     *)
(* position of one call: either emit_size() or emit(buf).  emit is         *)
(* followed statement by statement (header, one loop iteration per unwind  *)
(* code, padding, closing assert_eq) so that the bytes a panicking call    *)
(* leaves behind are visible.  A Rust panic is the control state "panic".  *)
(*                                                                         *)
(* Bytes are naturals 0..255; buffers are sequences, so the byte at Rust   *)
(* offset o is buf[o + 1].  u32 inputs stay below 2^31.                    *)
(***************************************************************************)
EXTENDS Integers, Sequences, FiniteSets, TLC

VARIABLES info, buf0, buf, offset, pc, idx, emitted, size_result

vars == <<info, buf0, buf, offset, pc, idx, emitted, size_result>>

(***************************************************************************)
(* Program constants                                                       *)
(***************************************************************************)
SMALL_ALLOC_MAX_SIZE == 128
LARGE_ALLOC_16BIT_MAX_SIZE == 524280
U16_MAX == 65535
UNWIND_INFO_VERSION == 1
MAX_NODE_COUNT == 256

PushNonvolatileRegister == 0
LargeStackAlloc == 1
SmallStackAlloc == 2
SaveXmm128 == 8
SaveXmm128Far == 9

(***************************************************************************)
(* Fixed-width integer arithmetic                                          *)
(***************************************************************************)
RECURSIVE Pow2(_)
Pow2(n) == IF n = 0 THEN 1 ELSE 2 * Pow2(n - 1)

\* `x as u8`, `x as u16`: truncating casts.
AsU8(x) == x % 256
AsU16(x) == x % 65536

\* `x << n` on a u8: bits shifted out are lost.
Shl8(x, n) == (x * Pow2(n)) % 256

\* `x >> n` on an unsigned value.
Shr(x, n) == x \div Pow2(n)

RECURSIVE BitOrN(_, _, _)
BitOrN(a, b, n) ==
    IF n = 0 THEN 0
    ELSE (IF (a % 2 = 1) \/ (b % 2 = 1) THEN 1 ELSE 0)
         + 2 * BitOrN(a \div 2, b \div 2, n - 1)

\* `a | b` on u8 values.
BitOr8(a, b) == BitOrN(a, b, 8)

\* A failed assert!: the call panics, the buffer keeps what it holds.
panic(w) == [w EXCEPT !.ok = FALSE]

(***************************************************************************)
(* Writer: a byte slice and a cursor.  ok = FALSE once a write has         *)
(* panicked (index out of bounds); later writes are then not executed.     *)
(***************************************************************************)
Writer_new(b) == [buf |-> b, offset |-> 0, ok |-> TRUE]

\* write_u8 without the slice's bounds check: a write past the end is dropped.
write_u8_unchecked(w, v) ==
    IF ~w.ok THEN w
    ELSE IF w.offset >= Len(w.buf) THEN [w EXCEPT !.offset = w.offset + 1]
    ELSE [w EXCEPT !.buf = [w.buf EXCEPT ![w.offset + 1] = v],
                   !.offset = w.offset + 1]

write_u8(w, v) ==
    IF ~w.ok THEN w
    ELSE IF w.offset >= Len(w.buf) THEN [w EXCEPT !.ok = FALSE]
    ELSE [w EXCEPT !.buf = [w.buf EXCEPT ![w.offset + 1] = v],
                   !.offset = w.offset + 1]

\* The slice buf[offset .. offset + 2] is taken first: if it does not fit,
\* nothing is written.
write_u16(w, v) ==
    IF ~w.ok THEN w
    ELSE IF w.offset + 2 > Len(w.buf) THEN [w EXCEPT !.ok = FALSE]
    ELSE [w EXCEPT !.buf = [w.buf EXCEPT ![w.offset + 1] = v % 256,
                                         ![w.offset + 2] = (v \div 256) % 256],
                   !.offset = w.offset + 2]

write_u32(w, v) ==
    IF ~w.ok THEN w
    ELSE IF w.offset + 4 > Len(w.buf) THEN [w EXCEPT !.ok = FALSE]
    ELSE [w EXCEPT !.buf = [w.buf EXCEPT ![w.offset + 1] = v % 256,
                                         ![w.offset + 2] = (v \div 256) % 256,
                                         ![w.offset + 3] = (v \div 65536) % 256,
                                         ![w.offset + 4] = (v \div 16777216) % 256],
                   !.offset = w.offset + 4]

(***************************************************************************)
(* UnwindCode                                                              *)
(***************************************************************************)
PushRegister(o, r) == [kind |-> "PushRegister", offset |-> o, reg |-> r, arg |-> 0]
SaveXmm(o, r, so) == [kind |-> "SaveXmm", offset |-> o, reg |-> r, arg |-> so]
StackAlloc(o, sz) == [kind |-> "StackAlloc", offset |-> o, reg |-> 0, arg |-> sz]

stack_offset(c) == c.arg
size(c) == c.arg

emit_PushRegister(c, w) ==
    write_u8(write_u8(w, c.offset),
             BitOr8(Shl8(c.reg, 4), PushNonvolatileRegister))

emit_SaveXmm(c, w) ==
    LET w1 == write_u8(w, c.offset)
        scaled == stack_offset(c) \div 16
    IN  IF scaled <= U16_MAX
        THEN write_u16(write_u8(w1, BitOr8(Shl8(c.reg, 4), SaveXmm128)),
                       AsU16(scaled))
        ELSE write_u16(
                 write_u16(write_u8(w1, BitOr8(Shl8(c.reg, 4), SaveXmm128Far)),
                           AsU16(scaled)),
                 AsU16(Shr(scaled, 16)))

\* emit_StackAlloc with the 16-bit large form storing the size unscaled.
emit_StackAlloc_unscaled(c, w) ==
    IF ~(c.arg >= 8) THEN panic(w)
    ELSE IF ~(c.arg % 8 = 0) THEN panic(w)
    ELSE LET w1 == write_u8(w, c.offset)
         IN  IF c.arg <= SMALL_ALLOC_MAX_SIZE
             THEN write_u8(w1, BitOr8(Shl8(AsU8((c.arg - 8) \div 8), 4),
                                      SmallStackAlloc))
             ELSE IF c.arg <= LARGE_ALLOC_16BIT_MAX_SIZE
             THEN write_u16(write_u8(w1, LargeStackAlloc), AsU16(c.arg))
             ELSE write_u32(write_u8(w1, BitOr8(Shl8(1, 4), LargeStackAlloc)),
                            c.arg)

emit_StackAlloc(c, w) ==
    IF ~(size(c) >= 8) THEN panic(w)
    ELSE IF ~(size(c) % 8 = 0) THEN panic(w)
    ELSE LET w1 == write_u8(w, c.offset)
         IN  IF size(c) <= SMALL_ALLOC_MAX_SIZE
             THEN write_u8(w1, BitOr8(Shl8(AsU8((size(c) - 8) \div 8), 4),
                                      SmallStackAlloc))
             ELSE IF size(c) <= LARGE_ALLOC_16BIT_MAX_SIZE
             THEN write_u16(write_u8(w1, LargeStackAlloc), AsU16(size(c) \div 8))
             ELSE write_u32(write_u8(w1, BitOr8(Shl8(1, 4), LargeStackAlloc)),
                            size(c))

UnwindCode_emit(c, w) ==
    IF ~w.ok THEN w
    ELSE CASE c.kind = "PushRegister" -> emit_PushRegister(c, w)
           [] c.kind = "SaveXmm" -> emit_SaveXmm(c, w)
           [] c.kind = "StackAlloc" -> emit_StackAlloc(c, w)

UnwindCode_node_count(c) ==
    CASE c.kind = "StackAlloc" ->
             IF size(c) <= SMALL_ALLOC_MAX_SIZE THEN 1
             ELSE IF size(c) <= LARGE_ALLOC_16BIT_MAX_SIZE THEN 2
             ELSE 3
      [] c.kind = "SaveXmm" ->
             IF stack_offset(c) <= U16_MAX THEN 2 ELSE 3
      [] OTHER -> 1

(***************************************************************************)
(* UnwindInfo                                                              *)
(***************************************************************************)
None == [is_some |-> FALSE, reg |-> 0]
Some(r) == [is_some |-> TRUE, reg |-> r]

\* unwind_codes.iter().fold(0, |nodes, c| nodes + c.node_count()) over the
\* codes at indices lo..hi.  The fold is a sum; it is evaluated by halves so
\* that the evaluation depth stays logarithmic in the length of the list.
RECURSIVE fold_node_count(_, _, _)
fold_node_count(codes, lo, hi) ==
    IF lo > hi THEN 0
    ELSE IF lo = hi THEN UnwindCode_node_count(codes[lo])
    ELSE LET mid == (lo + hi) \div 2
         IN  fold_node_count(codes, lo, mid) + fold_node_count(codes, mid + 1, hi)

UnwindInfo_node_count(ui) ==
    fold_node_count(ui.unwind_codes, 1, Len(ui.unwind_codes))

\* emit_size without assert!(self.flags == 0).
emit_size_unchecked(ui) ==
    LET node_count == UnwindInfo_node_count(ui)
    IN  [ok |-> TRUE,
         val |-> 4 + (node_count * 2)
                   + (IF node_count % 2 = 1 THEN 2 ELSE 0)]

\* emit_size(): ok = FALSE is the panic of assert!(self.flags == 0).
emit_size(ui) ==
    LET node_count == UnwindInfo_node_count(ui)
    IN  IF ~(ui.flags = 0) THEN [ok |-> FALSE, val |-> 0]
        ELSE [ok |-> TRUE,
              val |-> 4 + (node_count * 2)
                        + (IF node_count % 2 = 1 THEN 2 ELSE 0)]

\* The frame-register byte with the two nibbles exchanged.
frame_register_byte_swapped(ui) ==
    IF ui.frame_register.is_some
    THEN BitOr8(Shl8(ui.frame_register.reg, 4), ui.frame_register_offset)
    ELSE 0

\* The frame-register byte of the header.
frame_register_byte(ui) ==
    IF ui.frame_register.is_some
    THEN BitOr8(Shl8(ui.frame_register_offset, 4), ui.frame_register.reg)
    ELSE 0

\* emit_header with the node-count assert placed after the header writes.
emit_header_late_assert(ui, b) ==
    LET node_count == UnwindInfo_node_count(ui)
        w4 == write_u8(
                  write_u8(
                      write_u8(
                          write_u8(Writer_new(b),
                                   BitOr8(Shl8(ui.flags, 3), UNWIND_INFO_VERSION)),
                          ui.prologue_size),
                      AsU8(node_count)),
                  frame_register_byte(ui))
    IN  IF ~(node_count <= MAX_NODE_COUNT) THEN panic(w4) ELSE w4

\* First part of emit(): the node-count assert, then the four header bytes.
emit_header(ui, b) ==
    LET node_count == UnwindInfo_node_count(ui)
        w0 == Writer_new(b)
    IN  IF ~(node_count <= MAX_NODE_COUNT) THEN panic(w0)
        ELSE write_u8(
                 write_u8(
                     write_u8(
                         write_u8(w0, BitOr8(Shl8(ui.flags, 3), UNWIND_INFO_VERSION)),
                         ui.prologue_size),
                     AsU8(node_count)),
                 frame_register_byte(ui))

\* Iteration in list order instead of reverse order.
rev_index_forward(len, done) == done + 1

\* unwind_codes.iter().rev(): the list index (1-based) visited by the
\* iteration that follows `done` completed iterations.
rev_index(len, done) == len - done

\* The padding skipped over instead of written: the cursor advances, the two
\* bytes keep what the buffer held.
emit_padding_skipped(ui, w) ==
    IF UnwindInfo_node_count(ui) % 2 = 1
    THEN IF w.offset + 2 > Len(w.buf) THEN panic(w)
         ELSE [w EXCEPT !.offset = w.offset + 2]
    ELSE w

\* The padding written after the loop.
emit_padding(ui, w) ==
    IF UnwindInfo_node_count(ui) % 2 = 1 THEN write_u16(w, 0) ELSE w

\* assert_eq!(writer.offset, self.emit_size())
emit_check(ui, off) ==
    LET es == emit_size(ui) IN es.ok /\ off = es.val

(***************************************************************************)
(* Inputs                                                                  *)
(***************************************************************************)
MaxCodes == 3
MaxBulkPush == 3

\* Unwind codes the lists are built from: every variant, every node count,
\* one stack allocation that is no multiple of 8.
ListCodes ==
    { PushRegister(2, 6), PushRegister(10, 15),
      SaveXmm(4, 7, 32), SaveXmm(6, 8, 65536), SaveXmm(12, 9, 1048576),
      StackAlloc(8, 136), StackAlloc(14, 524288), StackAlloc(16, 4) }

\* Unwind codes tried one at a time: the magnitudes around every threshold.
XmmOffsets ==
    {0, 16, 24, 65520, 65536, 1048560, 1048576, 1048592, 2147483632}
AllocSizes ==
    {8 * i : i \in 1..18}
        \cup {0, 4, 12, 132, 524272, 524280, 524284, 524288, 524296,
              16777216, 2147483640}
SingleCodes ==
    {PushRegister(o, r) : o \in {0, 255}, r \in {0, 15, 17}}
        \cup {SaveXmm(1, 3, so) : so \in XmmOffsets}
        \cup {StackAlloc(1, sz) : sz \in AllocSizes}

SeqsUpTo(S, n) == UNION {[1..k -> S] : k \in 0..n}

\* Lists whose total node count is around MAX_NODE_COUNT: three-node stack
\* allocations followed by p one-node pushes, prologue offsets ascending.
BulkCodes(p) ==
    LET a == MAX_NODE_COUNT \div 3
    IN  [i \in 1..(a + p) |->
            IF i <= a THEN StackAlloc(i, 524288) ELSE PushRegister(i, 5)]

UnwindInfo(f, ps, fr, fro, codes) ==
    [flags |-> f, prologue_size |-> ps, frame_register |-> fr,
     frame_register_offset |-> fro, unwind_codes |-> codes]

ListInputs ==
    {UnwindInfo(f, 11, Some(5), 3, codes) :
        f \in {0, 1}, codes \in SeqsUpTo(ListCodes, MaxCodes)}
SingleInputs ==
    {UnwindInfo(f, 11, None, 0, <<c>>) : f \in {0, 1}, c \in SingleCodes}
HeaderInputs ==
    {UnwindInfo(f[1], f[2], fr, fro, <<PushRegister(1, 3)>>) :
        f \in {<<0, 11>>, <<0, 255>>, <<1, 0>>, <<32, 7>>},
        fr \in {None} \cup {Some(r) : r \in 0..16},
        fro \in 0..16}
BulkInputs ==
    {UnwindInfo(0, 200, None, 0, BulkCodes(p)) : p \in 0..MaxBulkPush}

Inputs == ListInputs \cup SingleInputs \cup HeaderInputs \cup BulkInputs

\* The size emit_size() computes when its assert is left aside; the buffer
\* lengths tried are taken around it.
NominalSize(ui) ==
    LET n == UnwindInfo_node_count(ui)
    IN  4 + 2 * n + (IF n % 2 = 1 THEN 2 ELSE 0)

BufLens(ui) ==
    {0, 3} \cup {l \in {NominalSize(ui) + d : d \in {-2, -1, 0, 1}} : l >= 0}

FillBytes == {0, 170}

(***************************************************************************)
(* State machine                                                           *)
(***************************************************************************)
NoSize == [called |-> FALSE, ok |-> FALSE, val |-> 0]

Init ==
    /\ info \in Inputs
    /\ \E len \in BufLens(info), fill \in FillBytes :
           buf0 = [i \in 1..len |-> fill]
    /\ buf = buf0
    /\ offset = 0
    /\ pc = "idle"
    /\ idx = 0
    /\ emitted = <<>>
    /\ size_result = NoSize

\* A call of emit_size().
EmitSize ==
    /\ pc = "idle"
    /\ LET es == emit_size(info)
       IN  size_result' = [called |-> TRUE, ok |-> es.ok, val |-> es.val]
    /\ pc' = "sized"
    /\ UNCHANGED <<info, buf0, buf, offset, idx, emitted>>

\* emit(buf), up to the loop.
EmitHeader ==
    /\ pc = "idle"
    /\ LET w == emit_header(info, buf)
       IN  /\ buf' = w.buf
           /\ offset' = w.offset
           /\ pc' = IF w.ok THEN "codes" ELSE "panic"
    /\ UNCHANGED <<info, buf0, idx, emitted, size_result>>

\* One iteration of the loop over unwind_codes.iter().rev().
EmitCode ==
    /\ pc = "codes"
    /\ idx < Len(info.unwind_codes)
    /\ LET i == rev_index(Len(info.unwind_codes), idx)
           w == UnwindCode_emit(info.unwind_codes[i],
                                [buf |-> buf, offset |-> offset, ok |-> TRUE])
       IN  /\ buf' = w.buf
           /\ offset' = w.offset
           /\ IF w.ok
              THEN /\ idx' = idx + 1
                   /\ emitted' = Append(emitted,
                          [index |-> i, start |-> offset, end |-> w.offset])
                   /\ pc' = "codes"
              ELSE /\ pc' = "panic"
                   /\ UNCHANGED <<idx, emitted>>
    /\ UNCHANGED <<info, buf0, size_result>>

\* After the loop: the padding.
EmitPadding ==
    /\ pc = "codes"
    /\ idx = Len(info.unwind_codes)
    /\ LET w == emit_padding(info, [buf |-> buf, offset |-> offset, ok |-> TRUE])
       IN  /\ buf' = w.buf
           /\ offset' = w.offset
           /\ pc' = IF w.ok THEN "check" ELSE "panic"
    /\ UNCHANGED <<info, buf0, idx, emitted, size_result>>

\* The closing assert_eq; emit() returns when it holds.
EmitCheck ==
    /\ pc = "check"
    /\ pc' = IF emit_check(info, offset) THEN "done" ELSE "panic"
    /\ UNCHANGED <<info, buf0, buf, offset, idx, emitted, size_result>>

Next == EmitSize \/ EmitHeader \/ EmitCode \/ EmitPadding \/ EmitCheck

Spec == Init /\ [][Next]_vars

TypeOK ==
    /\ pc \in {"idle", "sized", "codes", "check", "done", "panic"}
    /\ offset \in 0..Len(buf)
    /\ Len(buf) = Len(buf0)
    /\ \A i \in 1..Len(buf) : buf[i] \in 0..255
    /\ idx \in 0..Len(info.unwind_codes)

(***************************************************************************)
(* Properties                                                              *)
(***************************************************************************)
Codes == info.unwind_codes
NodeCount == UnwindInfo_node_count(info)

\* The byte at Rust offset o of the caller's buffer.
Byte(o) == buf[o + 1]

\* Little-endian fields read back from the buffer.
ReadU16(o) == Byte(o) + 256 * Byte(o + 1)
ReadU32(o) ==
    Byte(o) + 256 * Byte(o + 1) + 65536 * Byte(o + 2) + 16777216 * Byte(o + 3)

\* Where the unwind codes written so far end.
CodesEnd == IF emitted = <<>> THEN 4 ELSE emitted[Len(emitted)].end

ValidAlloc(c) == c.kind = "StackAlloc" => (c.arg >= 8 /\ c.arg % 8 = 0)
AlignedXmm(c) == c.kind = "SaveXmm" => c.arg % 16 = 0

\* C1: with flags = 0, at most 256 nodes, valid stack allocations and
\* 16-aligned vector saves, emit() into a buffer of exactly emit_size() bytes
\* does not panic and ends with the cursor at emit_size().
C1_EmitFillsExactBuffer ==
    ( /\ info.flags = 0
      /\ NodeCount <= 256
      /\ \A i \in 1..Len(Codes) : ValidAlloc(Codes[i]) /\ AlignedXmm(Codes[i])
      /\ Len(buf) = emit_size(info).val )
    => /\ pc # "panic"
       /\ pc = "done" => offset = emit_size(info).val

\* C2: a SaveXmm with stack_offset = 16k has node count 2 and the near form
\* (opcode 8, one 16-bit field = k) when k <= 65535, and node count 3 and the
\* far form (opcode 9, low and high halves of k) when k > 65535.
C2_SaveXmmForm ==
    \A p \in 1..Len(emitted) :
        LET e == emitted[p]
            c == Codes[e.index]
            k == c.arg \div 16
        IN  (c.kind = "SaveXmm" /\ c.arg % 16 = 0) =>
                IF k <= 65535
                THEN /\ UnwindCode_node_count(c) = 2
                     /\ Byte(e.start + 1) % 16 = 8
                     /\ e.end - e.start = 4
                     /\ ReadU16(e.start + 2) = k
                ELSE /\ UnwindCode_node_count(c) = 3
                     /\ Byte(e.start + 1) % 16 = 9
                     /\ e.end - e.start = 6
                     /\ 65536 * ReadU16(e.start + 4) + ReadU16(e.start + 2) = k

\* C3: a StackAlloc whose size is >= 8 and a multiple of 8 is written in the
\* small form (size <= 128), the 16-bit large form (size <= 524280) or the
\* 32-bit large form, the field decodes to the size, and the encoding takes
\* 2 * node_count() bytes.
C3_StackAllocRoundTrip ==
    \A p \in 1..Len(emitted) :
        LET e == emitted[p]
            c == Codes[e.index]
            b1 == Byte(e.start + 1)
        IN  (c.kind = "StackAlloc" /\ c.arg >= 8 /\ c.arg % 8 = 0) =>
                /\ e.end - e.start = 2 * UnwindCode_node_count(c)
                /\ Byte(e.start) = c.offset
                /\ IF c.arg <= 128
                   THEN /\ b1 % 16 = 2
                        /\ b1 \div 16 = (c.arg - 8) \div 8
                        /\ 8 * (b1 \div 16) + 8 = c.arg
                        /\ e.end - e.start = 2
                   ELSE IF c.arg <= 524280
                   THEN /\ b1 = 1
                        /\ 8 * ReadU16(e.start + 2) = c.arg
                        /\ e.end - e.start = 4
                   ELSE /\ b1 = 17
                        /\ ReadU32(e.start + 2) = c.arg
                        /\ e.end - e.start = 6

C3_Witness ==
    /\ pc = "done"
    /\ \E p \in 1..Len(emitted) :
           /\ Codes[emitted[p].index].kind = "StackAlloc"
           /\ Codes[emitted[p].index].arg = 524280

\* C4: the unwind codes are written in reverse list order, one directly after
\* the other from offset 4 on: the p-th code written is the one at list index
\* n - p + 1, and for a list in ascending prologue-offset order the
\* prologue-offset bytes in the buffer are descending.
Ascending(codes) ==
    \A i, j \in 1..Len(codes) : i < j => codes[i].offset <= codes[j].offset

C4_ReverseOrder ==
    /\ \A p \in 1..Len(emitted) :
           /\ emitted[p].index = Len(Codes) - p + 1
           /\ emitted[p].start = (IF p = 1 THEN 4 ELSE emitted[p - 1].end)
           /\ emitted[p].start >= 4
           /\ emitted[p].end > emitted[p].start
           /\ Byte(emitted[p].start) = Codes[emitted[p].index].offset
    /\ pc \in {"check", "done"} => Len(emitted) = Len(Codes)
    /\ Ascending(Codes) =>
           \A p, q \in 1..Len(emitted) :
               p < q => Byte(emitted[p].start) >= Byte(emitted[q].start)

C4_Witness ==
    /\ pc = "done"
    /\ Len(Codes) = 3
    /\ Codes[1].offset < Codes[2].offset
    /\ Codes[2].offset < Codes[3].offset
    /\ Codes[1].kind # Codes[3].kind

\* C5: after a successful emit(), an odd node count is followed by exactly
\* two zero bytes directly after the last unwind code and an even node count
\* by nothing; emit_size() is 4 + 2 * node_count + padding, a multiple of 4.
C5_Padding ==
    /\ info.flags = 0 =>
           /\ emit_size(info).val
                  = 4 + 2 * NodeCount + (IF NodeCount % 2 = 1 THEN 2 ELSE 0)
           /\ emit_size(info).val % 4 = 0
    /\ pc = "done" =>
           /\ CodesEnd = 4 + 2 * NodeCount
           /\ IF NodeCount % 2 = 1
              THEN /\ offset = CodesEnd + 2
                   /\ Byte(CodesEnd) = 0
                   /\ Byte(CodesEnd + 1) = 0
              ELSE offset = CodesEnd

C5_Witness ==
    /\ pc = "done"
    /\ NodeCount % 2 = 1
    /\ NodeCount > 1
    /\ buf0[CodesEnd + 1] # 0

\* C6: with flags # 0 neither emit_size() nor emit() returns normally.
C6_FlagsPanic ==
    info.flags # 0 =>
        /\ pc # "done"
        /\ pc = "sized" => ~size_result.ok
        /\ pc = "check" => ~emit_check(info, offset)

C6_Witness ==
    /\ info.flags # 0
    /\ pc = "panic"
    /\ Len(Codes) > 0
    /\ Len(emitted) = Len(Codes)
    /\ offset = NominalSize(info)

\* C7 (as stated): a failed emit() leaves the caller's buffer as it was.
FailureCase ==
    \/ info.flags # 0
    \/ \E i \in 1..Len(Codes) : ~ValidAlloc(Codes[i])
    \/ NodeCount > 256
    \/ info.flags = 0 /\ Len(buf) < emit_size(info).val

C7_NoPartialOutput ==
    (pc = "panic" /\ FailureCase) => buf = buf0

\* C7 (amended): in each of these cases emit() panics instead of returning;
\* the buffer is untouched only when the node count is above 256, which is
\* checked before the first write.  In the other cases the bytes written
\* before the failing step stay in the buffer: the header as far as it fits,
\* and nothing at or after the cursor.
C7_FailFast ==
    /\ FailureCase => pc # "done"
    /\ (pc = "panic" /\ NodeCount > 256) => (buf = buf0 /\ offset = 0)
    /\ (pc = "panic" /\ NodeCount <= 256) =>
           /\ offset >= (IF Len(buf) < 4 THEN Len(buf) ELSE 4)
           /\ offset >= 1 => Byte(0) = BitOr8(Shl8(info.flags, 3), 1)
    /\ pc = "panic" => \A i \in (offset + 1)..Len(buf) : buf[i] = buf0[i]

C7_Witness ==
    /\ pc = "panic"
    /\ NodeCount > 256
    /\ Len(buf) >= 4
    /\ buf = buf0

\* C8: after a successful emit() the byte at offset 2 is the total node
\* count, and emit() fails for every total above 256.
C8_NodeCountByte ==
    /\ pc = "done" => Byte(2) = NodeCount
    /\ NodeCount > 256 => pc # "done"

\* C9: emit() never returns normally when the buffer is shorter than
\* emit_size().
C9_ShortBufferPanics ==
    pc = "done" => (emit_size(info).ok /\ Len(buf) >= emit_size(info).val)

C9_Witness ==
    /\ pc = "panic"
    /\ info.flags = 0
    /\ Len(buf) = emit_size(info).val - 1
    /\ Len(emitted) = 2
    /\ \A i \in 1..Len(Codes) : ValidAlloc(Codes[i]) /\ Codes[i].kind # "SaveXmm"

\* C10: after a successful emit() byte 0 is (flags << 3) | 1 = 1, byte 1 is
\* prologue_size, and byte 3 is (frame_register_offset << 4) | frame_register
\* when a frame register is designated (low nibble the register, high nibble
\* the offset, for values in 0..15) and 0 when none is.
C10_Header ==
    pc = "done" =>
        /\ Byte(0) = 1
        /\ Byte(0) = BitOr8(Shl8(info.flags, 3), 1)
        /\ Byte(1) = info.prologue_size
        /\ IF info.frame_register.is_some
           THEN LET r == info.frame_register.reg
                    o == info.frame_register_offset
                IN  /\ Byte(3) = BitOr8((o * 16) % 256, r)
                    /\ (r \in 0..15 /\ o \in 0..15) =>
                           /\ Byte(3) = 16 * o + r
                           /\ Byte(3) % 16 = r
                           /\ Byte(3) \div 16 = o
           ELSE Byte(3) = 0

C10_Witness ==
    /\ pc = "done"
    /\ info.frame_register.is_some
    /\ info.frame_register.reg = 13
    /\ info.frame_register_offset = 9
    /\ info.prologue_size = 255

====
